---- MODULE Spec2Model ----
(***************************************************************************)
(* Model of the HTML page lifecycle engine of Lanette:                     *)
(*   src/src/html-pages/html-page-base.ts  (class HtmlPageBase)            *)
(*   src/unnamed/part_000                  (TournamentPointsShop page)     *)
(* One page list (one page type), page instances kept in a heap `pages`,   *)
(* and the user directory `users`.  A method is an operator from a world   *)
(* (the state it may change, plus the transport calls, error, hooks and    *)
(* return value it has produced so far) to a world.                        *)
(***************************************************************************)
EXTENDS Integers, Sequences, FiniteSets, TLC

VARIABLES pages, comps, pageList, users

vars == <<pages, comps, pageList, users>>

\* ---------------------------------------------------------------- bounds
MaxPages == 2

\* ------------------------------------------------------------ identities
Names == {"Ann", "ANN", "Bob"}
Ids == {"ann", "bob"}

\* Tools.toId: lower-cases a name and strips non-alphanumerics
toId(name) == IF name \in {"Ann", "ANN"} THEN "ann" ELSE "bob"

\* users holding the 'driver' rank in the room, or being developers
StaffIds == {"bob"}

NoPage == 0
Undefined == "undefined"

pageId == "tournament-points-shop"
CLOSE_COMMAND == "closehtmlpage"
SWITCH_LOCATION_COMMAND == "switchhtmlpagelocation"
commandPrefix == "tpshop room"

\* what render() may produce ('' included: render is abstract)
Contents == {"", "c1"}

\* Users.get(id) in directory dir: the entry; .online is FALSE when
\* Users.get returns undefined
UsersGet(dir, id) == dir[id]

\* JavaScript truthiness of a string-valued field
Truthy(s) == s /= "" /\ s /= Undefined

\* ------------------------------------------------- concrete page classes
\* What a subclass constructor sets after super(): the fields the base
\* class only declares defaults for.
NoOptions == << >>

PageKinds == {"shop", "panel"}

KindBaseChatUhtmlName(kind) == IF kind = "shop" THEN "" ELSE "chat-uhtml"
KindShowSwitch(kind) == kind = "panel"
KindReadonly(kind) == kind = "panel"
KindGlobalRoomPage(kind) == kind = "panel"
KindComponents(kind) ==
    IF kind = "panel"
    THEN << [componentCommand |-> "x", active |-> FALSE, destroyed |-> 0],
            [componentCommand |-> "x", active |-> TRUE, destroyed |-> 0],
            [componentCommand |-> "y", active |-> TRUE, destroyed |-> 0] >>
    ELSE << >>

\* ---------------------------------------------------------------- world
\* The part of the state a method can change, plus the effects it has had.
World == [pages |-> pages, comps |-> comps, pageList |-> pageList,
          users |-> users,
          calls |-> << >>, error |-> "none", rendered |-> FALSE,
          handled |-> << >>, hooks |-> << >>, returned |-> << >>]

SetPage(w, i, p) == [w EXCEPT !.pages[i] = p]
Call(w, c) == [w EXCEPT !.calls = Append(@, c)]
Throw(w, e) == [w EXCEPT !.error = e]

\* every object-valued property is gone after Tools.unrefProperties
Unrefd(p) == p.room = Undefined

\* ------------------------------------------------------------- buttons
BorderStyle == "border-color: #ffffff;"

EndsWithSemicolon(style) == style[Len(style)] \in {";", BorderStyle}

\* Client.getQuietPmButton(room, message, label, disabled, style): the Button
\* Builder, a pure function from its arguments to markup
ClientGetQuietPmButton(room, message, label, disabled, style) ==
    << [room |-> room, message |-> message, label |-> label,
        disabled |-> disabled, style |-> style] >>

\* a readonly page disables the button whatever options.enabledReadonly says
OptDisabled_IgnoresEnabledReadonly(p, options) ==
    LET disabled0 == options /= NoOptions
                     /\ (options[1].disabled \/ options[1].selectedAndDisabled)
    IN  IF ~disabled0 /\ options /= NoOptions /\ p.readonly
        THEN TRUE ELSE disabled0

OptDisabled(p, options) ==
    LET disabled0 == options /= NoOptions
                     /\ (options[1].disabled \/ options[1].selectedAndDisabled)
    IN  IF ~disabled0 /\ options /= NoOptions /\ ~options[1].enabledReadonly
           /\ p.readonly
        THEN TRUE ELSE disabled0

OptStyle(options) ==
    LET style0 == IF options /= NoOptions THEN options[1].style ELSE << >>
    IN  IF options /= NoOptions
           /\ (options[1].selected \/ options[1].selectedAndDisabled)
        THEN (IF style0 /= << >> /\ ~EndsWithSemicolon(style0)
              THEN Append(style0, ";") ELSE style0) \o <<BorderStyle>>
        ELSE style0

getQuietPmButton(p, message, label, options) ==
    ClientGetQuietPmButton(p.room, message, label,
                           OptDisabled(p, options), OptStyle(options))

Separator(p) == IF p.globalRoomPage THEN " " ELSE ", "

setCloseButton(p, options) ==
    IF Truthy(p.chatUhtmlName)
    THEN [p EXCEPT !.closeButtonHtml = << >>]
    ELSE [p EXCEPT !.closeButtonHtml =
            getQuietPmButton(p, <<commandPrefix, Separator(p), CLOSE_COMMAND>>,
                             "Close page", options)]

setSwitchLocationButton(p) ==
    IF p.showSwitchLocationButton
    THEN [p EXCEPT !.switchLocationButtonHtml =
            getQuietPmButton(p,
                <<commandPrefix, Separator(p), SWITCH_LOCATION_COMMAND>>,
                IF Truthy(p.chatUhtmlName) THEN "Move to HTML page"
                                           ELSE "Move to chat",
                NoOptions)]
    ELSE [p EXCEPT !.switchLocationButtonHtml = << >>]

\* ------------------------------------------------------------ identity
\* user.hasRank(this.room, 'driver') || user.isDeveloper()
HasRankOrDeveloper(id) == id \in StaffIds

\* setUser that leaves the derived staff flag as it was
setUser_StaleStaff(w, i, name) ==
    [w EXCEPT !.pages[i].userName = name,
              !.pages[i].userId = toId(name)]

setUser(w, i, name) ==
    LET user == UsersGet(w.users, toId(name))
    IN  [w EXCEPT !.pages[i].userName = name,
                  !.pages[i].userId = toId(name),
                  !.pages[i].isRoomStaff =
                        IF user.online THEN HasRankOrDeveloper(toId(name))
                        ELSE FALSE]

\* ------------------------------------------------------------- destroy
\* Tools.unrefProperties(this, ['closed', 'pageId', 'userName', 'userId']):
\* every other own property becomes undefined
unrefProperties(p) ==
    [p EXCEPT !.room = Undefined, !.pageList = Undefined,
              !.baseChatUhtmlName = Undefined, !.chatUhtmlName = Undefined,
              !.closeButtonHtml = << >>, !.switchLocationButtonHtml = << >>,
              !.components = << >>, !.globalRoomPage = FALSE,
              !.lastRender = Undefined, !.readonly = FALSE,
              !.showSwitchLocationButton = FALSE,
              !.usedCommandAfterLastRender = FALSE,
              !.isRoomStaff = FALSE]

\* destroy that leaves the page's components alone
destroy_KeepsComponents(w, i) ==
    LET p == w.pages[i]
    IN  IF Unrefd(p)
        THEN Throw(w, "TypeError")
        ELSE [w EXCEPT
                !.pageList[p.userId] = NoPage,
                !.pages[i] = unrefProperties([p EXCEPT !.closed = TRUE])]

destroy(w, i) ==
    LET p == w.pages[i]
    IN  IF Unrefd(p)
        THEN Throw(w, "TypeError")      \* for..of over undefined components
        ELSE [w EXCEPT
                !.comps[i] = [k \in DOMAIN @ |->
                                IF \E n \in DOMAIN p.components :
                                        p.components[n] = k
                                THEN [@[k] EXCEPT !.destroyed = @ + 1]
                                ELSE @[k]],
                !.pageList[p.userId] = NoPage,
                !.pages[i] = unrefProperties([p EXCEPT !.closed = TRUE])]

\* ---------------------------------------------------------------- send
SendHtmlPage(user, content) ==
    [call |-> "sendHtmlPage", user |-> user, name |-> pageId, html |-> content]
SayPrivateUhtml(user, name, content) ==
    [call |-> "sayPrivateUhtml", user |-> user, name |-> name, html |-> content]
CloseHtmlPage(user) ==
    [call |-> "closeHtmlPage", user |-> user, name |-> pageId, html |-> ""]

\* send without the memoization test of line 149
send_NoMemo(w, i, onOpen, guardOk, content) ==
    LET p == w.pages[i]
        user == UsersGet(w.users, p.userId)
    IN  IF p.closed \/ ~guardOk \/ ~user.online THEN w
        ELSE [w EXCEPT
                !.rendered = TRUE,
                !.pages[i].lastRender = content,
                !.pages[i].usedCommandAfterLastRender = FALSE,
                !.calls = Append(@,
                    IF Truthy(p.chatUhtmlName)
                    THEN SayPrivateUhtml(p.userId, p.chatUhtmlName, content)
                    ELSE SendHtmlPage(p.userId, content)),
                !.hooks = Append(@, "onSend")]

\* send without the closed test of line 141
send_NoClosedCheck(w, i, onOpen, guardOk, content) ==
    LET p == w.pages[i]
        user == UsersGet(w.users, p.userId)
    IN  IF ~guardOk \/ ~user.online THEN w
        ELSE IF content = p.lastRender /\ ~p.usedCommandAfterLastRender
             THEN [w EXCEPT !.rendered = TRUE]
        ELSE [w EXCEPT
                !.rendered = TRUE,
                !.pages[i].lastRender = content,
                !.pages[i].usedCommandAfterLastRender = FALSE,
                !.calls = Append(@,
                    IF Truthy(p.chatUhtmlName)
                    THEN SayPrivateUhtml(p.userId, p.chatUhtmlName, content)
                    ELSE SendHtmlPage(p.userId, content)),
                !.hooks = Append(@, "onSend")]

\* send that records the render before it looks the viewer up
send_RecordsBeforeViewer(w, i, onOpen, guardOk, content) ==
    LET p == w.pages[i]
        user == UsersGet(w.users, p.userId)
    IN  IF p.closed \/ ~guardOk THEN w
        ELSE IF ~user.online
             THEN [w EXCEPT !.rendered = TRUE, !.pages[i].lastRender = content]
        ELSE IF content = p.lastRender /\ ~p.usedCommandAfterLastRender
             THEN [w EXCEPT !.rendered = TRUE]
        ELSE [w EXCEPT
                !.rendered = TRUE,
                !.pages[i].lastRender = content,
                !.pages[i].usedCommandAfterLastRender = FALSE,
                !.calls = Append(@,
                    IF Truthy(p.chatUhtmlName)
                    THEN SayPrivateUhtml(p.userId, p.chatUhtmlName, content)
                    ELSE SendHtmlPage(p.userId, content)),
                !.hooks = Append(@, "onSend")]

\* send that clears the forced-send flag as soon as the guard has passed
send_ClearsFlagEarly(w, i, onOpen, guardOk, content) ==
    LET p == w.pages[i]
        user == UsersGet(w.users, p.userId)
    IN  IF p.closed \/ ~guardOk THEN w
        ELSE IF ~user.online
             THEN [w EXCEPT !.pages[i].usedCommandAfterLastRender = FALSE]
        ELSE IF content = p.lastRender /\ ~p.usedCommandAfterLastRender
             THEN [w EXCEPT !.rendered = TRUE]
        ELSE [w EXCEPT
                !.rendered = TRUE,
                !.pages[i].lastRender = content,
                !.pages[i].usedCommandAfterLastRender = FALSE,
                !.calls = Append(@,
                    IF Truthy(p.chatUhtmlName)
                    THEN SayPrivateUhtml(p.userId, p.chatUhtmlName, content)
                    ELSE SendHtmlPage(p.userId, content)),
                !.hooks = Append(@, "onSend")]

\* guardOk: beforeSend is absent or returns true; content: what render()
\* returns if it is reached
send(w, i, onOpen, guardOk, content) ==
    LET p == w.pages[i]
        user == UsersGet(w.users, p.userId)
    IN  IF p.closed THEN w
        ELSE IF ~guardOk THEN w
        ELSE IF ~user.online THEN w
        ELSE IF content = p.lastRender /\ ~p.usedCommandAfterLastRender
             THEN [w EXCEPT !.rendered = TRUE]
        ELSE [w EXCEPT
                !.rendered = TRUE,
                !.pages[i].lastRender = content,
                !.pages[i].usedCommandAfterLastRender = FALSE,
                !.calls = Append(@,
                    IF Truthy(p.chatUhtmlName)
                    THEN SayPrivateUhtml(p.userId, p.chatUhtmlName, content)
                    ELSE SendHtmlPage(p.userId, content)),
                !.hooks = Append(@, "onSend")]

\* open that forces the send by setting the forced-send flag first
open_Forced(w, i, guardOk, content) ==
    send([w EXCEPT !.pages[i].usedCommandAfterLastRender = TRUE],
         i, TRUE, guardOk, content)

open(w, i, guardOk, content) == send(w, i, TRUE, guardOk, content)

\* --------------------------------------------------------------- close
\* close without the closed test of line 76
close_NoCheck(w, i) ==
    LET p == w.pages[i]
        user == UsersGet(w.users, p.userId)
        w1 == IF user.online THEN Call(w, CloseHtmlPage(p.userId)) ELSE w
    IN  destroy([w1 EXCEPT !.hooks = Append(@, "onClose")], i)

\* close that retracts the standalone page only in standalone mode
close_SuppressedInOverlay(w, i) ==
    LET p == w.pages[i]
        user == UsersGet(w.users, p.userId)
        w1 == IF user.online /\ ~Truthy(p.chatUhtmlName)
              THEN Call(w, CloseHtmlPage(p.userId)) ELSE w
    IN  IF p.closed THEN Throw(w, "Error: page already closed")
        ELSE destroy([w1 EXCEPT !.hooks = Append(@, "onClose")], i)

close(w, i) ==
    LET p == w.pages[i]
        user == UsersGet(w.users, p.userId)
        w1 == IF user.online THEN Call(w, CloseHtmlPage(p.userId)) ELSE w
        w2 == [w1 EXCEPT !.hooks = Append(@, "onClose")]
    IN  IF p.closed THEN Throw(w, "Error: page already closed")
        ELSE destroy(w2, i)

tryClose(w, i) == IF ~w.pages[i].closed THEN close(w, i) ELSE w

\* temporarilyClose that also destroys the page, as close does
temporarilyClose_Destroys(w, i) ==
    LET p == w.pages[i]
        user == UsersGet(w.users, p.userId)
    IN  IF ~user.online THEN w
        ELSE IF Unrefd(p) THEN Throw(w, "TypeError")
        ELSE destroy(Call(w, CloseHtmlPage(p.userId)), i)

temporarilyClose(w, i) ==
    LET p == w.pages[i]
        user == UsersGet(w.users, p.userId)
    IN  IF ~user.online THEN w
        ELSE IF Unrefd(p) THEN Throw(w, "TypeError")  \* this.room undefined
        ELSE Call(w, CloseHtmlPage(p.userId))

\* ------------------------------------------------------ switchLocation
MovedNotice == "<div>Successfully moved to an HTML page.</div>"

\* switchLocation that never leaves overlay mode
switchLocation_NoClear(w, i, guardOk, content) ==
    LET p0 == w.pages[i]
        p1 == [p0 EXCEPT !.chatUhtmlName = p0.baseChatUhtmlName,
                         !.usedCommandAfterLastRender = TRUE]
        p3 == setCloseButton(setSwitchLocationButton(p1), NoOptions)
        w3 == send(SetPage(w, i, p3), i, FALSE, guardOk, content)
        user == UsersGet(w.users, p0.userId)
    IN  IF ~user.online THEN w3
        ELSE IF ~Truthy(p0.chatUhtmlName) THEN temporarilyClose(w3, i)
        ELSE Call(w3, SayPrivateUhtml(p0.userId, p3.baseChatUhtmlName,
                                      MovedNotice))

switchLocation(w, i, guardOk, content) ==
    LET p0 == w.pages[i]
        closeHtmlPage == ~Truthy(p0.chatUhtmlName)
        p1 == [p0 EXCEPT !.chatUhtmlName =
                    IF Truthy(p0.chatUhtmlName) THEN ""
                    ELSE p0.baseChatUhtmlName,
                !.usedCommandAfterLastRender = TRUE]
        p2 == setSwitchLocationButton(p1)
        p3 == setCloseButton(p2, NoOptions)
        w3 == send(SetPage(w, i, p3), i, FALSE, guardOk, content)
        user == UsersGet(w.users, p0.userId)
    IN  IF ~user.online THEN w3
        ELSE IF closeHtmlPage THEN temporarilyClose(w3, i)
        ELSE Call(w3, SayPrivateUhtml(p0.userId, p3.baseChatUhtmlName,
                                      MovedNotice))

\* -------------------------------------------------------- onRenameUser
\* rename that installs the page under the new id and keeps the old entry
onRenameUser_KeepsOld(w, i, name, oldId) ==
    LET newId == toId(name)
        w1 == IF w.pageList[newId] /= NoPage
              THEN destroy(w, w.pageList[oldId])
              ELSE [setUser(w, i, name) EXCEPT !.pageList[newId] = i]
    IN  IF Unrefd(w.pages[i]) THEN Throw(w, "TypeError")
        ELSE IF w.pageList[oldId] = NoPage THEN w
        ELSE IF oldId = newId THEN [w EXCEPT !.pages[i].userName = name]
        ELSE w1

\* this = page i; user has the (new) name `name`
onRenameUser(w, i, name, oldId) ==
    LET newId == toId(name)
        w1 == IF w.pageList[newId] /= NoPage
              THEN destroy(w, w.pageList[oldId])
              ELSE [setUser(w, i, name) EXCEPT !.pageList[newId] = i]
    IN  IF Unrefd(w.pages[i]) THEN Throw(w, "TypeError")
        ELSE IF w.pageList[oldId] = NoPage THEN w
        ELSE IF oldId = newId THEN [w EXCEPT !.pages[i].userName = name]
        ELSE IF w1.error /= "none" THEN w1
        ELSE IF Unrefd(w1.pages[i])
             THEN Throw(w1, "TypeError")  \* delete on undefined pageList
        ELSE [w1 EXCEPT !.pageList[oldId] = NoPage]

\* ---------------------------------------------- checkComponentCommands
UnknownSubCommand(componentCommand) ==
    <<"Unknown sub-command", componentCommand>>

Matches(w, i, componentCommand) ==
    { n \in DOMAIN w.pages[i].components :
        LET c == w.comps[i][w.pages[i].components[n]]
        IN  c.active /\ c.componentCommand = componentCommand }

Min(S) == CHOOSE n \in S : \A m \in S : n <= m

\* dispatch that does not look at component.active
checkComponentCommands_IgnoresActive(w, i, componentCommand, result) ==
    LET m == { n \in DOMAIN w.pages[i].components :
                w.comps[i][w.pages[i].components[n]].componentCommand
                    = componentCommand }
    IN  IF Unrefd(w.pages[i]) THEN Throw(w, "TypeError")
        ELSE IF m /= {}
        THEN [w EXCEPT !.pages[i].usedCommandAfterLastRender = TRUE,
                       !.handled = Append(@, w.pages[i].components[Min(m)]),
                       !.returned = result]
        ELSE [w EXCEPT !.returned = UnknownSubCommand(componentCommand)]

\* dispatch that marks the forced send before it looks for a component
checkComponentCommands_AlwaysFlags(w, i, componentCommand, result) ==
    LET m == Matches(w, i, componentCommand)
        w0 == [w EXCEPT !.pages[i].usedCommandAfterLastRender = TRUE]
    IN  IF Unrefd(w.pages[i]) THEN Throw(w, "TypeError")
        ELSE IF m /= {}
        THEN [w0 EXCEPT !.handled = Append(@, w.pages[i].components[Min(m)]),
                        !.returned = result]
        ELSE [w0 EXCEPT !.returned = UnknownSubCommand(componentCommand)]

\* result: what component.tryCommand(targets) returns
checkComponentCommands(w, i, componentCommand, result) ==
    LET m == Matches(w, i, componentCommand)
    IN  IF Unrefd(w.pages[i]) THEN Throw(w, "TypeError")
        ELSE IF m /= {}
        THEN [w EXCEPT !.pages[i].usedCommandAfterLastRender = TRUE,
                       !.handled = Append(@, w.pages[i].components[Min(m)]),
                       !.returned = result]
        ELSE [w EXCEPT !.returned = UnknownSubCommand(componentCommand)]

\* --------------------------------------------------------- constructor
\* field initialisers of HtmlPageBase
NewPage ==
    [baseChatUhtmlName |-> "", chatUhtmlName |-> "", closed |-> FALSE,
     closeButtonHtml |-> << >>, components |-> << >>,
     globalRoomPage |-> FALSE, lastRender |-> "", readonly |-> FALSE,
     showSwitchLocationButton |-> FALSE, switchLocationButtonHtml |-> << >>,
     usedCommandAfterLastRender |-> FALSE,
     room |-> "room", pageList |-> "pages",
     isRoomStaff |-> FALSE, userName |-> "", userId |-> ""]

\* the subclass constructor body that runs after super()
Subclass(w, i, kind) ==
    [w EXCEPT !.pages[i].baseChatUhtmlName = KindBaseChatUhtmlName(kind),
              !.pages[i].showSwitchLocationButton = KindShowSwitch(kind),
              !.pages[i].readonly = KindReadonly(kind),
              !.pages[i].globalRoomPage = KindGlobalRoomPage(kind),
              !.pages[i].components =
                    [n \in 1..Len(KindComponents(kind)) |-> n],
              !.comps[i] = KindComponents(kind)]

\* constructor that installs the new page without destroying the old one
constructor_NoDestroy(w, name, kind) ==
    LET i == Len(w.pages) + 1
        w0 == [w EXCEPT !.pages = Append(@, NewPage),
                        !.comps = Append(@, << >>)]
        w1 == setUser(w0, i, name)
        w2 == SetPage(w1, i, setCloseButton(w1.pages[i], NoOptions))
    IN  Subclass([w2 EXCEPT !.pageList[toId(name)] = i], i, kind)

\* new Page(room, userOrPlayer, baseCommand, pageList); the new instance is
\* page Len(w.pages) + 1
constructor(w, name, kind) ==
    LET i == Len(w.pages) + 1
        id == toId(name)
        w0 == [w EXCEPT !.pages = Append(@, NewPage),
                        !.comps = Append(@, << >>)]
        w1 == setUser(w0, i, name)
        w2 == SetPage(w1, i, setCloseButton(w1.pages[i], NoOptions))
        w3 == IF w2.pageList[id] /= NoPage
              THEN destroy(w2, w2.pageList[id]) ELSE w2
        w4 == [w3 EXCEPT !.pageList[id] = i]
    IN  Subclass(w4, i, kind)

\* ------------------------------------------- tournament points shop
unlockRibbonCommand == "unlockribbon"

\* a ribbon id as unlockRibbon sees it: "new" is listed for the room and not
\* yet unlocked by the user, "none" is not listed or already unlocked
Ribbons == {"new", "none"}

\* what is left of targets after the room and the sub-command
Args == {<< >>} \cup { <<r>> : r \in Ribbons }

unlockRibbon(w, i, id, guardOk, content) ==
    IF Unrefd(w.pages[i]) THEN Throw(w, "TypeError")  \* this.trainerCardRoom
    ELSE IF id /= "new" THEN w
    ELSE send(w, i, FALSE, guardOk, content)

Say(user, message) ==
    [call |-> "say", user |-> user, name |-> "", html |-> message]

\* pages[user.id].method(...): fails when there is no such entry
Deref(w, id, then) ==
    IF w.pageList[id] = NoPage THEN Throw(w, "TypeError: no page") ELSE then

\* the handler with a close branch that does not test `user.id in pages`
command_CloseUnguarded(w, name, cmd, targets, guardOk, content, result) ==
    LET id == toId(name)
        w1 == IF w.pageList[id] = NoPage /\ cmd /= CLOSE_COMMAND
              THEN constructor(w, name, "shop") ELSE w
    IN  IF cmd = ""
        THEN open(constructor(w, name, "shop"), Len(w.pages) + 1,
                  guardOk, content)
        ELSE IF cmd = CLOSE_COMMAND
        THEN Deref(w1, id, close(w1, w1.pageList[id]))
        ELSE IF cmd = unlockRibbonCommand
        THEN (IF w1.pageList[id] = NoPage THEN w1
              ELSE IF targets = << >>
              THEN Throw(w1, "TypeError: no argument")
              ELSE unlockRibbon(w1, w1.pageList[id], targets[1],
                                guardOk, content))
        ELSE LET w2 == Deref(w1, id,
                        checkComponentCommands(w1, w1.pageList[id], cmd,
                                               result))
             IN  IF w2.error = "none" /\ w2.returned /= << >>
                 THEN Call(w2, Say(id, w2.returned)) ELSE w2

\* the command handler, past its early returns (not a PM, unknown room, shop
\* not configured for the room); the user is `name`, cmd is
\* Tools.toId(targets[0]) and targets what follows it
command(w, name, cmd, targets, guardOk, content, result) ==
    LET id == toId(name)
        w1 == IF w.pageList[id] = NoPage /\ cmd /= CLOSE_COMMAND
              THEN constructor(w, name, "shop") ELSE w
    IN  IF cmd = ""
        THEN open(constructor(w, name, "shop"), Len(w.pages) + 1,
                  guardOk, content)
        ELSE IF cmd = CLOSE_COMMAND
        THEN (IF w1.pageList[id] /= NoPage
              THEN close(w1, w1.pageList[id]) ELSE w1)
        ELSE IF cmd = unlockRibbonCommand
        THEN (IF w1.pageList[id] = NoPage THEN w1
              ELSE IF targets = << >>
              THEN Throw(w1, "TypeError: no argument")  \* targets[0].trim()
              ELSE unlockRibbon(w1, w1.pageList[id], targets[1],
                                guardOk, content))
        ELSE LET w2 == Deref(w1, id,
                        checkComponentCommands(w1, w1.pageList[id], cmd,
                                               result))
             IN  IF w2.error = "none" /\ w2.returned /= << >>
                 THEN Call(w2, Say(id, w2.returned)) ELSE w2

\* ------------------------------------------------------------- actions
Offline == [online |-> FALSE, name |-> ""]

Apply(w) ==
    /\ pages' = w.pages
    /\ comps' = w.comps
    /\ pageList' = w.pageList
    /\ users' = w.users

PageRefs == 1..Len(pages)

Init ==
    /\ pages = << >>
    /\ comps = << >>
    /\ pageList = [id \in Ids |-> NoPage]
    /\ users = [id \in Ids |-> Offline]

UserJoin(name) ==
    /\ ~users[toId(name)].online
    /\ users' = [users EXCEPT ![toId(name)] = [online |-> TRUE, name |-> name]]
    /\ UNCHANGED <<pages, comps, pageList>>

UserLeave(id) ==
    /\ users[id].online
    /\ users' = [users EXCEPT ![id] = Offline]
    /\ UNCHANGED <<pages, comps, pageList>>

\* new Page(room, user, ...): the user is the sender of the command, hence
\* in the directory under the name it has there
Construct(id, kind) ==
    /\ Len(pages) < MaxPages
    /\ users[id].online
    /\ Apply(constructor(World, users[id].name, kind))

Open(i, guardOk, content) ==
    Apply(open(World, i, guardOk, content))

Send(i, guardOk, content) ==
    Apply(send(World, i, FALSE, guardOk, content))

Close(i) ==
    Apply(close(World, i))

TryClose(i) ==
    Apply(tryClose(World, i))

TemporarilyClose(i) ==
    Apply(temporarilyClose(World, i))

SwitchLocation(i, guardOk, content) ==
    Apply(switchLocation(World, i, guardOk, content))

CheckComponentCommands(i, componentCommand, result) ==
    Apply(checkComponentCommands(World, i, componentCommand, result))

\* the directory after the user at oldId took the name `name`
Renamed(dir, oldId, name) ==
    [[dir EXCEPT ![oldId] = Offline]
        EXCEPT ![toId(name)] = [online |-> TRUE, name |-> name]]

\* the page the rename is delivered to: the one registered under oldId;
\* when there is none, any registered page (the call returns at once)
RenameReceivers(oldId) ==
    IF pageList[oldId] /= NoPage THEN {pageList[oldId]}
    ELSE {pageList[id] : id \in {x \in Ids : pageList[x] /= NoPage}}

RenameUser(oldId, name) ==
    /\ users[oldId].online
    /\ users[oldId].name /= name
    /\ LET w0 == [World EXCEPT !.users = Renamed(users, oldId, name)]
       IN  IF RenameReceivers(oldId) = {}
           THEN Apply(w0)
           ELSE \E i \in RenameReceivers(oldId) :
                    Apply(onRenameUser(w0, i, name, oldId))

ShopCommands == {"", CLOSE_COMMAND, unlockRibbonCommand, "x"}

\* the inputs a command reads: targets by unlockribbon only, the guard and
\* the render by the commands that send
CommandArgs(cmd) == IF cmd = unlockRibbonCommand THEN Args ELSE {<< >>}
CommandGuards(cmd, targets) ==
    IF cmd = "" \/ targets = <<"new">> THEN BOOLEAN ELSE {TRUE}
CommandRenders(cmd, targets, g) ==
    IF g /\ (cmd = "" \/ targets = <<"new">>) THEN Contents ELSE {""}

\* what the component handler returns, read by the other sub-commands only
CommandResults(cmd) ==
    IF cmd \in {"", CLOSE_COMMAND, unlockRibbonCommand}
    THEN {<< >>} ELSE {<< >>, <<"component error">>}

Command(id, cmd, targets, guardOk, content, result) ==
    /\ users[id].online
    /\ LET w == command(World, users[id].name, cmd, targets, guardOk,
                        content, result)
       IN  Len(w.pages) <= MaxPages /\ Apply(w)

ComponentCommands == {"x", "z"}
Results == {<<"component error">>}

\* inputs that cannot influence an operation are not enumerated: the guard
\* and the render of a closed page or of a page whose viewer is not
\* resolvable, and the render of a vetoed send
Unsendable(i) == pages[i].closed \/ ~UsersGet(users, pages[i].userId).online
Guards(i) == IF Unsendable(i) THEN {TRUE} ELSE BOOLEAN
Renders(i, g) == IF Unsendable(i) \/ ~g THEN {""} ELSE Contents

Next ==
    \/ \E name \in Names : UserJoin(name)
    \/ \E id \in Ids : UserLeave(id)
    \/ \E id \in Ids, kind \in PageKinds : Construct(id, kind)
    \/ \E i \in PageRefs : \E g \in Guards(i) : \E c \in Renders(i, g) :
            Open(i, g, c)
    \/ \E i \in PageRefs : \E g \in Guards(i) : \E c \in Renders(i, g) :
            Send(i, g, c)
    \/ \E i \in PageRefs : Close(i)
    \/ \E i \in PageRefs : TryClose(i)
    \/ \E i \in PageRefs : TemporarilyClose(i)
    \/ \E i \in PageRefs : \E g \in Guards(i) : \E c \in Renders(i, g) :
            SwitchLocation(i, g, c)
    \/ \E i \in PageRefs, cc \in ComponentCommands, r \in Results :
            CheckComponentCommands(i, cc, r)
    \/ \E oldId \in Ids, name \in Names : RenameUser(oldId, name)
    \/ \E id \in Ids, cmd \in ShopCommands, r \in Results :
        \E t \in CommandArgs(cmd) : \E g \in CommandGuards(cmd, t) :
            \E c \in CommandRenders(cmd, t, g) : Command(id, cmd, t, g, c, r)

Spec == Init /\ [][Next]_vars

\* ================================================================ claims
Live(i) == ~pages[i].closed
Viewer(i) == UsersGet(users, pages[i].userId).online
LivePagesOf(id) == {i \in PageRefs : Live(i) /\ pages[i].userId = id}
Deliveries(w) ==
    Cardinality({n \in DOMAIN w.calls :
                    w.calls[n].call \in {"sendHtmlPage", "sayPrivateUhtml"}
                    /\ w.calls[n].html /= MovedNotice})
Retractions(w) ==
    Cardinality({n \in DOMAIN w.calls : w.calls[n].call = "closeHtmlPage"})

\* C1: constructing a page for an identity leaves exactly that page
\* registered under the identity and every earlier page of the identity
\* closed; two non-closed pages of one identity never coexist.
C1_RegisterReplaces ==
    /\ \A id \in Ids : Cardinality(LivePagesOf(id)) <= 1
    /\ \A id \in Ids : LivePagesOf(id) /= {} => pageList[id] \in LivePagesOf(id)
    /\ \A id \in Ids, kind \in PageKinds :
        users[id].online =>
            LET w == constructor(World, users[id].name, kind)
                i == Len(pages) + 1
            IN  /\ w.error = "none"
                /\ w.pageList[id] = i
                /\ ~w.pages[i].closed
                /\ \A j \in PageRefs :
                        w.pages[j].userId = id => w.pages[j].closed

\* a second page was constructed for an identity whose first page was still
\* registered: the first is closed, the second is the registered one
C1_Witness ==
    \E i \in PageRefs, j \in PageRefs :
        /\ i < j
        /\ pages[i].userName = pages[j].userName
        /\ pages[i].closed /\ comps[i] /= << >>
        /\ \A k \in DOMAIN comps[i] : comps[i][k].destroyed = 1
        /\ Live(j) /\ pageList[pages[j].userId] = j
        /\ pages[j].lastRender = ""

\* C2: on a live page with a resolvable viewer and a non-vetoing guard, a
\* send() whose render equals lastRender while the forced-send flag is unset
\* delivers nothing and changes nothing (so a whole sequence of such sends
\* delivers nothing), a send() whose render differs from lastRender makes
\* exactly one delivery call, and sending the same content a second time
\* never delivers.
C2_SendMemoized ==
    \A i \in PageRefs, c \in Contents :
        (Live(i) /\ Viewer(i)) =>
            LET p == pages[i]
                w == send(World, i, FALSE, TRUE, c)
                again == send([w EXCEPT !.calls = << >>], i, FALSE, TRUE, c)
            IN  /\ (c = p.lastRender /\ ~p.usedCommandAfterLastRender)
                        => (w.calls = << >> /\ w.pages = pages)
                /\ c /= p.lastRender
                        => (Len(w.calls) = 1 /\ Deliveries(w) = 1
                            /\ w.calls[1].html = c)
                /\ again.calls = << >>

\* a page that has been sent "c1" and has the forced-send flag unset: the
\* same render is skipped, a differing one is delivered
C2_Witness ==
    \E i \in PageRefs :
        /\ Live(i) /\ Viewer(i)
        /\ pages[i].lastRender = "c1"
        /\ ~pages[i].usedCommandAfterLastRender
        /\ send(World, i, FALSE, TRUE, "c1").calls = << >>
        /\ Deliveries(send(World, i, FALSE, TRUE, "")) = 1

\* C3 as stated: open() on a live page with a resolvable viewer and a
\* non-vetoing guard always makes exactly one delivery call, whatever
\* lastRender, the forced-send flag and the render are.
C3_OpenAlwaysDelivers ==
    \A i \in PageRefs, c \in Contents :
        (Live(i) /\ Viewer(i)) => Deliveries(open(World, i, TRUE, c)) = 1

\* C3 amended: open() is send(true) and is memoized like any send: it makes
\* exactly one delivery call when the render differs from lastRender or the
\* forced-send flag is set, and none otherwise.
C3_OpenMemoized ==
    \A i \in PageRefs, c \in Contents :
        (Live(i) /\ Viewer(i)) =>
            LET p == pages[i]
                w == open(World, i, TRUE, c)
            IN  /\ Deliveries(w) =
                        IF c /= p.lastRender \/ p.usedCommandAfterLastRender
                        THEN 1 ELSE 0
                /\ Deliveries(w) = 0 => w.pages = pages

\* an opened page whose render has not changed: open() delivers nothing
C3_Witness ==
    \E i \in PageRefs :
        /\ Live(i) /\ Viewer(i)
        /\ pages[i].lastRender = "c1"
        /\ ~pages[i].usedCommandAfterLastRender
        /\ open(World, i, TRUE, "c1").calls = << >>
        /\ open(World, i, TRUE, "c1").rendered

\* C4: close() on a closed page raises the lifecycle error, makes no
\* transport call and changes neither the registry nor any page; tryClose()
\* on a closed page does nothing at all.
C4_CloseOnClosed ==
    \A i \in PageRefs :
        pages[i].closed =>
            /\ close(World, i) = Throw(World, "Error: page already closed")
            /\ tryClose(World, i) = World
            /\ tryClose(tryClose(World, i), i) = tryClose(World, i)

\* a closed page whose owner is online and has a newer page registered
C4_Witness ==
    \E i \in PageRefs :
        /\ pages[i].closed
        /\ Viewer(i)
        /\ pageList[pages[i].userId] \notin {NoPage, i}
        /\ close(World, i).error = "Error: page already closed"

\* what the operations do when they are invoked on a closed page
ClosedIsInert ==
    \A i \in PageRefs :
        pages[i].closed =>
            /\ \A g \in BOOLEAN, c \in Contents :
                /\ \A w \in {open(World, i, g, c), send(World, i, FALSE, g, c)} :
                        ~w.rendered /\ w.calls = << >> /\ w.handled = << >>
                /\ LET w == switchLocation(World, i, g, c)
                   IN  /\ ~w.rendered /\ Deliveries(w) = 0
                       /\ w.handled = << >> /\ w.pages[i].closed
            /\ \A w \in {temporarilyClose(World, i)} \cup
                        {checkComponentCommands(World, i, cc, r) :
                            cc \in ComponentCommands, r \in Results} :
                    /\ ~w.rendered /\ Deliveries(w) = 0
                    /\ w.handled = << >> /\ w.pages[i].closed

StaysClosed == \A i \in PageRefs : pages[i].closed => pages'[i].closed

\* C5: every operation invoked on a closed page (open, send, switchLocation,
\* temporarilyClose, checkComponentCommands) computes no render, makes no
\* delivery call and invokes no component handler, and a closed page stays
\* closed in every step.
C5_ClosedIsInert == []ClosedIsInert /\ [][StaysClosed]_vars

\* a closed page on which switchLocation() was invoked afterwards (it set the
\* forced-send flag) while its owner is online
C5_Witness ==
    \E i \in PageRefs :
        /\ pages[i].closed
        /\ pages[i].usedCommandAfterLastRender
        /\ Viewer(i)

\* C6 as stated: every switchLocation() on a live page changes the delivery
\* channel to the other mode, for every base overlay name, the default
\* (empty) one included.
C6_SwitchAlwaysToggles ==
    \A i \in PageRefs, g \in BOOLEAN, c \in Contents :
        Live(i) =>
            LET w == switchLocation(World, i, g, c)
            IN  Truthy(w.pages[i].chatUhtmlName)
                    /= Truthy(pages[i].chatUhtmlName)

\* C6 amended: on a live page whose base overlay name is not empty,
\* switchLocation() changes the delivery channel to the other mode (standalone
\* becomes overlay named by the base name, overlay becomes standalone); on a
\* page with the default empty base name a standalone page stays standalone.
\* In both cases two calls return the channel to its original value.
C6_SwitchTogglesNamed ==
    \A i \in PageRefs, g \in BOOLEAN, c \in Contents :
        Live(i) =>
            LET p == pages[i]
                w == switchLocation(World, i, g, c)
            IN  /\ w.pages[i].chatUhtmlName =
                        IF Truthy(p.chatUhtmlName) THEN ""
                        ELSE p.baseChatUhtmlName
                /\ Truthy(p.baseChatUhtmlName) =>
                        Truthy(w.pages[i].chatUhtmlName)
                            /= Truthy(p.chatUhtmlName)
                /\ \A g2 \in BOOLEAN, c2 \in Contents :
                        switchLocation(w, i, g2, c2)
                            .pages[i].chatUhtmlName = p.chatUhtmlName

\* a live page that switchLocation() has moved to the overlay
C6_Witness ==
    \E i \in PageRefs :
        /\ Live(i)
        /\ pages[i].chatUhtmlName = pages[i].baseChatUhtmlName
        /\ Truthy(pages[i].chatUhtmlName)
        /\ pages[i].closeButtonHtml = << >>
        /\ switchLocation(World, i, TRUE, "c1").pages[i].chatUhtmlName = ""

\* C7: switchLocation() on a live standalone page with a resolvable viewer
\* makes exactly one overlay delivery of the render followed by exactly one
\* standalone retraction and no standalone delivery; it never retracts the
\* standalone page without having delivered the content to the overlay.
C7_SwitchFromStandalone ==
    \A i \in PageRefs, g \in BOOLEAN, c \in Contents :
        (Live(i) /\ Viewer(i) /\ ~Truthy(pages[i].chatUhtmlName)) =>
            LET p == pages[i]
                w == switchLocation(World, i, g, c)
            IN  w.calls = << SayPrivateUhtml(p.userId, p.baseChatUhtmlName, c),
                             CloseHtmlPage(p.userId) >>

\* C8 as stated: close() on a live page retracts the standalone page only in
\* standalone mode, the call being suppressed in overlay mode; afterwards the
\* registry has no page for the owner.
C8_CloseRetractsOnlyStandalone ==
    \A i \in PageRefs :
        Live(i) =>
            LET w == close(World, i)
            IN  /\ Truthy(pages[i].chatUhtmlName) => Retractions(w) = 0
                /\ w.pageList[pages[i].userId] = NoPage

\* C8 amended: close() on a live page makes exactly one standalone-retraction
\* call when the viewer is resolvable, in standalone and in overlay mode
\* alike, and none when the viewer is not resolvable; in every case it raises
\* no error, the page ends closed and the registry has no page for the owner.
C8_CloseRetractsWhenViewer ==
    \A i \in PageRefs :
        Live(i) =>
            LET p == pages[i]
                w == close(World, i)
            IN  /\ w.calls = IF Viewer(i) THEN <<CloseHtmlPage(p.userId)>>
                             ELSE << >>
                /\ w.error = "none"
                /\ w.pages[i].closed
                /\ w.pageList[p.userId] = NoPage

\* a live page in overlay mode whose viewer is resolvable: close() retracts
C8_Witness ==
    \E i \in PageRefs :
        /\ Live(i) /\ Viewer(i)
        /\ Truthy(pages[i].chatUhtmlName)
        /\ pageList[pages[i].userId] = i
        /\ Retractions(close(World, i)) = 1
        /\ close(World, i).pageList[pages[i].userId] = NoPage

\* the rename of the user at oldId to `name`, delivered to the page
\* registered under oldId
Rename(oldId, name) ==
    onRenameUser([World EXCEPT !.users = Renamed(users, oldId, name)],
                 pageList[oldId], name, oldId)

\* C9: a rename from oldId to a different newId, pages being registered
\* under both, completes without failure, closes the page that was under
\* oldId, leaves no entry under oldId and leaves the page under newId
\* registered and not closed.
C9_RenameCollision ==
    \A oldId \in Ids, name \in Names :
        (/\ users[oldId].online
         /\ toId(name) /= oldId
         /\ pageList[oldId] /= NoPage
         /\ pageList[toId(name)] /= NoPage) =>
            LET w == Rename(oldId, name)
            IN  /\ w.error = "none"
                /\ w.pages[pageList[oldId]].closed
                /\ w.pageList[oldId] = NoPage
                /\ w.pageList[toId(name)] = pageList[toId(name)]
                /\ ~w.pages[pageList[toId(name)]].closed

\* C10: a rename from oldId to a different newId, a page being registered
\* under oldId and none under newId, re-keys that page: it is registered
\* under newId, nothing is registered under oldId, the page is not closed and
\* its userId, userName and staff flag are those of the new identity.
C10_RenameRekeys ==
    \A oldId \in Ids, name \in Names :
        (/\ users[oldId].online
         /\ toId(name) /= oldId
         /\ pageList[oldId] /= NoPage
         /\ pageList[toId(name)] = NoPage) =>
            LET i == pageList[oldId]
                w == Rename(oldId, name)
            IN  /\ w.error = "none"
                /\ w.pageList[toId(name)] = i
                /\ w.pageList[oldId] = NoPage
                /\ ~w.pages[i].closed
                /\ w.pages[i].userId = toId(name)
                /\ w.pages[i].userName = name
                /\ w.pages[i].isRoomStaff = HasRankOrDeveloper(toId(name))
                /\ \A j \in PageRefs \ {i} : w.pages[j] = pages[j]

\* a page of a non-staff user about to be re-keyed to a staff identity that
\* has no page
C10_Witness ==
    \E oldId \in Ids, name \in Names :
        /\ users[oldId].online
        /\ toId(name) /= oldId
        /\ pageList[oldId] /= NoPage
        /\ pageList[toId(name)] = NoPage
        /\ pages[pageList[oldId]].lastRender = "c1"
        /\ ~pages[pageList[oldId]].isRoomStaff
        /\ Rename(oldId, name).pages[pageList[oldId]].isRoomStaff
        /\ Rename(oldId, name).pageList[toId(name)] = pageList[oldId]

\* C11: a send() that is skipped (page closed, guard veto, viewer not
\* resolvable, or render equal to lastRender with the forced-send flag unset)
\* raises no error, makes no transport call, does not invoke onSend and
\* leaves lastRender and the forced-send flag (indeed every page) unchanged;
\* lastRender changes only in a send() that makes a delivery call.
C11_SkippedSendChangesNothing ==
    \A i \in PageRefs, g \in BOOLEAN, c \in Contents :
        LET p == pages[i]
            w == send(World, i, FALSE, g, c)
            skipped == \/ p.closed
                       \/ ~g
                       \/ ~Viewer(i)
                       \/ (c = p.lastRender /\ ~p.usedCommandAfterLastRender)
        IN  /\ skipped =>
                /\ w.error = "none"
                /\ w.calls = << >>
                /\ w.hooks = << >>
                /\ w.pages = pages
            /\ w.pages[i].lastRender /= p.lastRender =>
                /\ Deliveries(w) = 1
                /\ w.hooks = <<"onSend">>

\* a live page that was sent "c1" and whose viewer has left: a send of a
\* different render is skipped
C11_Witness ==
    \E i \in PageRefs :
        /\ Live(i) /\ ~Viewer(i)
        /\ pages[i].lastRender = "c1"
        /\ send(World, i, FALSE, TRUE, "").pages[i].lastRender = "c1"
        /\ send(World, i, FALSE, TRUE, "").calls = << >>

AllComponentCommands == ComponentCommands \cup {"y"}
AllResults == Results \cup {<< >>}

\* component n (in registration order) of page i
ComponentAt(i, n) == comps[i][pages[i].components[n]]

Styles == { << >>, <<"color: red">>, <<"color: red", ";">> }

ButtonOptions ==
    { <<o>> : o \in [disabled : BOOLEAN, enabledReadonly : BOOLEAN,
                     selected : BOOLEAN, selectedAndDisabled : BOOLEAN,
                     style : Styles] }

\* a field of the options read the JavaScript way: absent options have none
OptFlag(options, f) == options /= NoOptions /\ options[1][f]
StyleOf(options) == IF options = NoOptions THEN << >> ELSE options[1].style

\* the style handed to the Button Builder is the caller's style, a ';' if it
\* lacked one, and the border highlight
Highlighted(options, style) ==
    /\ Len(style) > Len(StyleOf(options))
    /\ style[Len(style)] = BorderStyle
    /\ SubSeq(style, 1, Len(StyleOf(options))) = StyleOf(options)
    /\ \A k \in (Len(StyleOf(options)) + 1)..(Len(style) - 1) : style[k] = ";"

StyleAsClaimed(options, style) ==
    IF OptFlag(options, "selected") \/ OptFlag(options, "selectedAndDisabled")
    THEN Highlighted(options, style)
    ELSE style = StyleOf(options)

\* C14 as stated: for every readonly flag and every options value, absent
\* options included, getQuietPmButton passes disabled = (options.disabled or
\* options.selectedAndDisabled) or (readonly and not options.enabledReadonly)
\* and appends the border highlight exactly when options.selected or
\* options.selectedAndDisabled.
C14_DisabledForAnyOptions ==
    \A i \in PageRefs, o \in ButtonOptions \cup {NoOptions} :
        Live(i) =>
            LET b == getQuietPmButton(pages[i], <<"m">>, "l", o)[1]
            IN  /\ b.disabled =
                    (\/ OptFlag(o, "disabled")
                     \/ OptFlag(o, "selectedAndDisabled")
                     \/ (pages[i].readonly /\ ~OptFlag(o, "enabledReadonly")))
                /\ StyleAsClaimed(o, b.style)

\* C14 amended: the formula holds whenever options are given; a button
\* built without options is never disabled, readonly page or not, and has
\* no style.
C14_DisabledWhenOptionsGiven ==
    \A i \in PageRefs :
        Live(i) =>
            /\ \A o \in ButtonOptions :
                LET b == getQuietPmButton(pages[i], <<"m">>, "l", o)[1]
                IN  /\ b.disabled =
                        (\/ o[1].disabled
                         \/ o[1].selectedAndDisabled
                         \/ (pages[i].readonly /\ ~o[1].enabledReadonly))
                    /\ StyleAsClaimed(o, b.style)
            /\ LET b == getQuietPmButton(pages[i], <<"m">>, "l", NoOptions)[1]
               IN  ~b.disabled /\ b.style = << >>

\* a live readonly page showing a switch-location button, which was built
\* without options and is enabled, while options that do not exempt the
\* button get it disabled
C14_Witness ==
    \E i \in PageRefs :
        /\ Live(i) /\ pages[i].readonly
        /\ pages[i].switchLocationButtonHtml /= << >>
        /\ ~pages[i].switchLocationButtonHtml[1].disabled
        /\ \E o \in ButtonOptions :
            /\ ~o[1].disabled /\ ~o[1].selectedAndDisabled
            /\ getQuietPmButton(pages[i], <<"m">>, "l", o)[1].disabled

\* C15: over any sequence of construction, open, send, switchLocation,
\* rename, tryClose and close, every component of a page has been destroyed
\* exactly once when its page is closed and not at all while its page is
\* not closed; so components are destroyed in the step that closes their
\* page, and no page is destroyed twice.
C15_ComponentsDestroyedOnce ==
    \A i \in PageRefs :
        /\ \A k \in DOMAIN comps[i] :
            comps[i][k].destroyed = IF pages[i].closed THEN 1 ELSE 0
        /\ Live(i) =>
            { pages[i].components[n] : n \in DOMAIN pages[i].components }
                = DOMAIN comps[i]

\* a page with components that was replaced by a newer page of the same
\* user: the old one is closed and its components are destroyed, the new
\* one's are not
C15_Witness ==
    \E i, j \in PageRefs :
        /\ i < j
        /\ pages[i].closed /\ Live(j)
        /\ pages[i].userId = pages[j].userId
        /\ comps[i] /= << >> /\ comps[j] /= << >>
        /\ \A k \in DOMAIN comps[i] : comps[i][k].destroyed = 1
        /\ \A k \in DOMAIN comps[j] : comps[j][k].destroyed = 0

\* C16: when switchLocation() is called and its send step is
\* aborted (viewer not resolvable, or the guard vetoes), chatUhtmlName, the
\* forced-send flag and the button markup are the same after the call as
\* before it.
C16_AbortedSwitchChangesNothing ==
    \A i \in PageRefs, g \in BOOLEAN, c \in Contents :
        (Live(i) /\ (~Viewer(i) \/ ~g)) =>
            LET w == switchLocation(World, i, g, c)
            IN  /\ w.pages[i].chatUhtmlName = pages[i].chatUhtmlName
                /\ w.pages[i].usedCommandAfterLastRender
                        = pages[i].usedCommandAfterLastRender
                /\ w.pages[i].closeButtonHtml = pages[i].closeButtonHtml
                /\ w.pages[i].switchLocationButtonHtml
                        = pages[i].switchLocationButtonHtml

\* C17: the registry is written only by construction, onRenameUser and
\* destroy: open, send, temporarilyClose, switchLocation, setUser,
\* checkComponentCommands and the button-building operations, on any page
\* and with any input, leave every registry entry unchanged.
C17_RegistryFrame ==
    \A i \in PageRefs :
        /\ \A g \in BOOLEAN, c \in Contents :
            /\ open(World, i, g, c).pageList = pageList
            /\ send(World, i, FALSE, g, c).pageList = pageList
            /\ switchLocation(World, i, g, c).pageList = pageList
        /\ temporarilyClose(World, i).pageList = pageList
        /\ \A name \in Names : setUser(World, i, name).pageList = pageList
        /\ \A cc \in AllComponentCommands, r \in AllResults :
            checkComponentCommands(World, i, cc, r).pageList = pageList
        /\ SetPage(World, i, setCloseButton(pages[i], NoOptions)).pageList
                = pageList
        /\ SetPage(World, i, setSwitchLocationButton(pages[i])).pageList
                = pageList

\* a registered page that has been moved to the chat overlay and is moved
\* back, its standalone copy delivered: the registry is as it was
C17_Witness ==
    \E i \in PageRefs :
        /\ Live(i) /\ Viewer(i)
        /\ pageList[pages[i].userId] = i
        /\ Truthy(pages[i].chatUhtmlName)
        /\ Deliveries(switchLocation(World, i, TRUE, "c1")) = 1
        /\ temporarilyClose(World, i).calls /= << >>

\* C18: in every reachable state every registry entry maps its key k to a
\* page that is not closed and whose userId is k: lookup returns no closed
\* page and no entry stays under a stale key.
C18_RegistryConsistent ==
    \A k \in Ids :
        pageList[k] /= NoPage =>
            /\ pageList[k] \in PageRefs
            /\ ~pages[pageList[k]].closed
            /\ pages[pageList[k]].userId = k

\* a state with a closed page in which a re-keying rename is about to move
\* a registered page to a free key
C18_Witness ==
    \E oldId \in Ids, name \in Names :
        /\ users[oldId].online
        /\ toId(name) /= oldId
        /\ pageList[oldId] /= NoPage
        /\ pageList[toId(name)] = NoPage
        /\ \E j \in PageRefs : pages[j].closed
        /\ Rename(oldId, name).pageList[toId(name)] = pageList[oldId]
        /\ Rename(oldId, name).pageList[oldId] = NoPage

Flagged(i) == Live(i) /\ pages[i].usedCommandAfterLastRender

\* what send() and the other operations do to a live page whose forced-send
\* flag is set
FlagPersists ==
    \A i \in PageRefs :
        Flagged(i) =>
            /\ \A g \in BOOLEAN, c \in Contents :
                LET w == send(World, i, FALSE, g, c)
                IN  IF g /\ Viewer(i)
                    THEN /\ Deliveries(w) = 1
                         /\ w.pages[i].lastRender = c
                         /\ ~w.pages[i].usedCommandAfterLastRender
                    ELSE /\ w.calls = << >>
                         /\ w.pages[i].usedCommandAfterLastRender
            /\ temporarilyClose(World, i).pages[i].usedCommandAfterLastRender
            /\ \A cc \in AllComponentCommands, r \in AllResults :
                checkComponentCommands(World, i, cc, r)
                    .pages[i].usedCommandAfterLastRender

\* a step that clears the flag of a page that stays live is a send, an open
\* or a switchLocation whose send step made a delivery call
FlagClearedByDelivery ==
    \A i \in PageRefs :
        (Flagged(i) /\ ~pages'[i].closed
         /\ ~pages'[i].usedCommandAfterLastRender) =>
            /\ Viewer(i)
            /\ \E c \in Contents :
                \/ /\ pages' = send(World, i, FALSE, TRUE, c).pages
                   /\ Deliveries(send(World, i, FALSE, TRUE, c)) = 1
                \/ /\ pages' = switchLocation(World, i, TRUE, c).pages
                   /\ Deliveries(switchLocation(World, i, TRUE, c)) = 1

\* C19: once the forced-send flag is set on a live page it stays set across
\* skipped sends (guard veto or viewer not resolvable) and every other
\* operation that leaves the page live, and is cleared only by a send() that
\* makes a delivery call; so the first later send() with a resolvable viewer
\* and a non-vetoing guard delivers, even when the render equals lastRender.
C19_FlagForcesNextSend == []FlagPersists /\ [][FlagClearedByDelivery]_vars

\* a live page that was sent "c1", has the flag set and whose viewer is
\* there: a vetoed send keeps the flag, a send of "c1" again delivers
C19_Witness ==
    \E i \in PageRefs :
        /\ Flagged(i) /\ Viewer(i)
        /\ pages[i].lastRender = "c1"
        /\ send(World, i, FALSE, FALSE, "c1").pages[i].usedCommandAfterLastRender
        /\ Deliveries(send(World, i, FALSE, TRUE, "c1")) = 1

\* C20: for any sequence of tournament-points-shop commands (no
\* sub-command, close, unlockribbon, any other sub-command) and user
\* renames, the command handler never calls close() on a closed page and
\* never dereferences a missing registry entry: a close command of a user
\* without a page creates no page and does nothing, and every other
\* sub-command finds the user's page or constructs it first.
C20_CommandHandlerSafe ==
    \A id \in Ids, cmd \in ShopCommands :
      \A t \in CommandArgs(cmd), r \in CommandResults(cmd) :
        \A g \in CommandGuards(cmd, t) : \A c \in CommandRenders(cmd, t, g) :
          users[id].online =>
            LET w == command(World, users[id].name, cmd, t, g, c, r)
                new == Len(pages) + 1
            IN  /\ w.error \notin {"Error: page already closed",
                                   "TypeError: no page", "TypeError"}
                /\ (cmd = CLOSE_COMMAND /\ pageList[id] = NoPage) =>
                        w = World
                /\ (cmd = CLOSE_COMMAND /\ pageList[id] /= NoPage) =>
                        /\ w.pages[pageList[id]].closed
                        /\ w.pageList[id] = NoPage
                        /\ Len(w.pages) = Len(pages)
                /\ cmd /= CLOSE_COMMAND =>
                        /\ w.pageList[id] /= NoPage
                        /\ ~w.pages[w.pageList[id]].closed
                        /\ w.pageList[id] =
                            IF cmd = "" \/ pageList[id] = NoPage
                            THEN new ELSE pageList[id]

\* a user who is online, has no page but had one (it is closed), another
\* user's page being registered: close does nothing, any other sub-command
\* constructs the page
C20_Witness ==
    \E id \in Ids, j \in PageRefs, k \in PageRefs :
        /\ users[id].online
        /\ pageList[id] = NoPage
        /\ pages[j].closed /\ pages[j].userId = id
        /\ Live(k)
        /\ command(World, users[id].name, CLOSE_COMMAND, << >>, TRUE, "",
                   << >>) = World
        /\ command(World, users[id].name, "x", << >>, TRUE, "", << >>)
                .pageList[id] = Len(pages) + 1

====
